---------------------------- MODULE Spec2Model ----------------------------
(***************************************************************************)
(* Model of uaclient/cli/fix.py: execute_fix_plan, the interpreter of a    *)
(* fix plan (steps and warnings), with the prompts, the attach / renew /   *)
(* enable helpers it calls and the final status computation.               *)
(*                                                                         *)
(* One behaviour is one call of execute_fix_plan.  The plan, dry_run, the  *)
(* privilege level and the attachment state of the host are the inputs,    *)
(* drawn in Init.  The answers of the collaborators (package manager,      *)
(* prompts, attach, entitlement status, reboot check) are drawn when the   *)
(* code asks for them.  Printing is not modelled (pkg_index,               *)
(* print_pkg_header and warn_package_cannot_be_installed only steer        *)
(* output).                                                                *)
(*                                                                         *)
(* Two more specifications share the module.  SpecEnable: calls of _enable *)
(* (api/u/pro/services/enable/v1.py) by several processes, with the lock   *)
(* file and the enabled services they share.  SpecUsn: one call of fix_usn *)
(* (cli/fix.py), which runs execute_fix_plan for the target plan and the   *)
(* related plans.  Each specification keeps the variables of the others at *)
(* rest.                                                                   *)
(***************************************************************************)
EXTENDS Integers, Sequences, FiniteSets, TLC

\* ------------------------------------------------------------- bounds
\* longest merged plan (steps plus warnings)
MaxLen == 2
\* largest value of an entry's order field
MaxOrder == 2

\* ------------------------------------------------------------- FixStatus
SYSTEM_NON_VULNERABLE == "SYSTEM_NON_VULNERABLE"
SYSTEM_NOT_AFFECTED == "SYSTEM_NOT_AFFECTED"
SYSTEM_STILL_VULNERABLE == "SYSTEM_STILL_VULNERABLE"
SYSTEM_VULNERABLE_UNTIL_REBOOT == "SYSTEM_VULNERABLE_UNTIL_REBOOT"

\* FixPlanNoOpStatus.NOT_AFFECTED.value
NOT_AFFECTED == "system-not-affected"

\* ------------------------------------------------------------- plan entries
\* An entry of the plan: a step (fix_plan.plan) or a warning
\* (fix_plan.warnings).  All entries carry the same fields; a kind leaves the
\* fields it does not have empty.
Entry(kind, src, bin, status) ==
    [kind |-> kind, source_packages |-> src, binary_packages |-> bin,
     status |-> status]

\* the step shapes the plans are built from
StepShapes ==
    { Entry("AptUpgrade", <<"a">>, <<"bin1">>, ""),
      Entry("AptUpgrade", <<"b">>, <<>>, ""),
      Entry("Attach", <<"a", "b">>, <<>>, ""),
      Entry("Enable", <<"a">>, <<>>, ""),
      Entry("NoOp", <<>>, <<>>, NOT_AFFECTED),
      Entry("NoOpLivepatchFix", <<>>, <<>>, "cve-fixed-by-livepatch"),
      Entry("NoOpAlreadyFixed", <<"b">>, <<>>, "cve-already-fixed") }

\* the warning shapes; PackageCannotBeInstalled has one source_package
WarningShapes ==
    { Entry("PackageCannotBeInstalled", <<"a">>, <<"bin1">>, ""),
      Entry("SecurityIssueNotFixed", <<"a">>, <<>>, "needed"),
      Entry("SecurityIssueNotFixed", <<"b", "a">>, <<>>, "not-affected") }

WithOrder(shapes) ==
    { [kind |-> s.kind, source_packages |-> s.source_packages,
       binary_packages |-> s.binary_packages, status |-> s.status,
       order |-> o] : s \in shapes, o \in 1..MaxOrder }

SeqsUpTo(S, n) == UNION { [1..k -> S] : k \in 0..n }

\* ------------------------------------------------------------- state
VARIABLES
    fix_plan,        \* [plan, warnings]: the immutable input
    dry_run,         \* parameter
    is_root,         \* util.we_are_currently_root()
    attached,        \* _is_attached(cfg).is_attached
    expired,         \* contract expiry status is EXPIRED
    pc,              \* "loop", "post", "done" (returned), "raised"
    i,               \* position in the sorted plan of the next entry
    fix_status,
    unfixed_pkgs,    \* list of [pkg, unfixed_reason]
    installed_pkgs,  \* set of binary package names
    notice,          \* Notice.ENABLE_REBOOT_REQUIRED was added
    loop_status,     \* fix_status when the loop was left (history)
    reboot_answer,   \* "not_asked", "yes", "no" (history)
    events,          \* what was done for each processed entry (history)
    \* state of the enable endpoint (api/u/pro/services/enable/v1.py)
    services,        \* names of the enabled services (_enabled_services)
    lock_file,       \* the lock file: [lock_holder, lock_pid], or NoLock
    proc,            \* per process: where its _enable call is, its locals
    calls,           \* number of _enable calls made so far
    \* state of one fix_usn call (cli/fix.py)
    usn              \* where the call is, its parameters and locals

\* the variables of one execute_fix_plan run
FixVars == <<fix_plan, dry_run, is_root, attached, expired, pc, i, fix_status,
             unfixed_pkgs, installed_pkgs, notice, loop_status, reboot_answer,
             events>>

\* the variables of the enable endpoint; attached is shared with FixVars
EnableVars == <<services, lock_file, proc, calls>>

vars == <<fix_plan, dry_run, is_root, attached, expired, pc, i, fix_status,
          unfixed_pkgs, installed_pkgs, notice, loop_status, reboot_answer,
          events, services, lock_file, proc, calls, usn>>

\* full_plan = [*fix_plan.plan, *fix_plan.warnings]
full_plan == fix_plan.plan \o fix_plan.warnings

\* ------------------------------------------------------------- sorted()
\* sorted(full_plan, key=lambda x: x.order) as a list of positions in
\* full_plan.  Python's sort is stable: an element is placed after every
\* element already there whose key is not larger.
RECURSIVE InsertByOrder(_, _, _)
InsertByOrder(fp, x, s) ==
    IF s = <<>> THEN <<x>>
    ELSE IF fp[Head(s)].order <= fp[x].order
         THEN <<Head(s)>> \o InsertByOrder(fp, x, Tail(s))
         ELSE <<x>> \o s

RECURSIVE SortPrefix(_, _)
SortPrefix(fp, n) ==
    IF n = 0 THEN <<>> ELSE InsertByOrder(fp, n, SortPrefix(fp, n - 1))

\* a sort that is not stable: entries of equal order come out reversed
SortedByOrderUnstable(fp) ==
    CHOOSE s \in [1..Len(fp) -> 1..Len(fp)] :
        \A j, k \in 1..Len(fp) :
            j < k => \/ fp[s[j]].order < fp[s[k]].order
                     \/ fp[s[j]].order = fp[s[k]].order /\ s[j] > s[k]

SortedByOrder(fp) == SortPrefix(fp, Len(fp))

\* the list the for loop walks
sorted_plan == SortedByOrder(full_plan)

\* position in full_plan of the entry the loop is at, and the entry
cur == sorted_plan[i]
step == full_plan[cur]

\* ------------------------------------------------------------- helpers
\* security.UnfixedPackage(pkg=p, unfixed_reason=reason) for each p of pkgs
Unfixed(pkgs, reason) ==
    [k \in 1..Len(pkgs) |-> [pkg |-> pkgs[k], unfixed_reason |-> reason]]

\* status_message(status) without a pocket: the message texts, by name
status_message(status) ==
    CASE status = "needed" -> "SECURITY_CVE_STATUS_NEEDED"
      [] status = "needs-triage" -> "SECURITY_CVE_STATUS_TRIAGE"
      [] status = "pending" -> "SECURITY_CVE_STATUS_PENDING"
      [] status \in {"ignored", "deferred"} -> "SECURITY_CVE_STATUS_IGNORED"
      [] status = "DNE" -> "SECURITY_CVE_STATUS_DNE"
      [] status = "not-affected" -> "SECURITY_CVE_STATUS_NOT_AFFECTED"
      [] OTHER -> "SECURITY_CVE_STATUS_UNKNOWN"

Set(s) == { s[k] : k \in 1..Len(s) }

\* history record of one processed entry: its position in full_plan, the
\* branch taken and the length of unfixed_pkgs when its processing began
Event(what) == [idx |-> cur, what |-> what, ub |-> Len(unfixed_pkgs)]

\* the loop goes on with the next entry, or ends after the last one
Continue ==
    /\ i' = i + 1
    /\ pc' = IF i + 1 > Len(sorted_plan) THEN "post" ELSE "loop"

\* break
Break ==
    /\ i' = i + 1
    /\ pc' = "post"

AtStep(kind) ==
    /\ pc = "loop"
    /\ i <= Len(sorted_plan)
    /\ step.kind = kind

Inputs == <<fix_plan, dry_run, is_root>>
Host == <<attached, expired>>
Final == <<notice, loop_status, reboot_answer>>

\* ------------------------------------------------------------- enable state
\* bounds: number of processes that call _enable, and of calls in all
NumProcs == 2
MaxCalls == 3

\* process ids of the callers; any other pid is of a process that is gone
Procs == 1..NumProcs

\* the service names, in the order sorted() gives them
ServiceNames == <<"esm-infra", "fips", "landscape">>
ServiceSet == { ServiceNames[k] : k \in 1..Len(ServiceNames) }

\* lock_holder of the lock.SpinLock taken by _enable
LockHolder == "u.pro.services.enable.v1"

\* no lock file
NoLock == [lock_holder |-> "", lock_pid |-> -1]

\* an EnableResult, and the value of result before the return
EnableResult(enabled, disabled, reboot_required) ==
    [enabled |-> enabled, disabled |-> disabled,
     reboot_required |-> reboot_required]
NoResult == EnableResult(<<"-">>, <<"-">>, FALSE)

\* a process that is not in _enable; the locals of a call and its history:
\* acquired (it took the lock), healed (the lock it holds was taken over a
\* stale lock file),
\* called (it ran entitlement.enable)
IdleProc ==
    [pc |-> "idle", service |-> "", root |-> FALSE,
     before |-> {}, outcome |-> "none", error |-> "",
     result |-> NoResult, acquired |-> FALSE, healed |-> FALSE,
     called |-> FALSE]

\* nothing happens at the enable endpoint
EnableQuiet ==
    /\ services = {}
    /\ lock_file = NoLock
    /\ proc = [p \in Procs |-> IdleProc]
    /\ calls = 0

\* ------------------------------------------------------------- fix_usn state
\* bound: longest list of related USN plans
MaxRelated == 2

\* the titles of the related USN plans
Titles == {"USN-1", "USN-2"}

\* FixStatus
FixStatusValues ==
    {SYSTEM_NON_VULNERABLE, SYSTEM_NOT_AFFECTED, SYSTEM_STILL_VULNERABLE,
     SYSTEM_VULNERABLE_UNTIL_REBOOT}

\* a fix_usn call that has not begun.  error: target_usn_plan.error is set;
\* related: the titles of related_usns_plan; j: position of the loop over
\* the related plans; related_usn_status: the dict, by title; log: the
\* plans executed so far, 0 (the target) or a position in related, with the
\* status each returned (history).
UsnCall(error, no_related, related) ==
    [pc |-> "start", error |-> error, no_related |-> no_related,
     related |-> related, j |-> 1, target_usn_status |-> "none",
     related_usn_status |-> [t \in {} |-> "none"],
     failure_on_related_usn |-> FALSE, result |-> "none", log |-> <<>>]

\* no fix_usn call is made
UsnQuiet == usn = [UsnCall(FALSE, FALSE, <<>>) EXCEPT !.pc = "idle"]

\* ------------------------------------------------------------- Init
Init ==
    /\ EnableQuiet
    /\ UsnQuiet
    /\ \E p \in SeqsUpTo(WithOrder(StepShapes), MaxLen) :
         \E w \in SeqsUpTo(WithOrder(WarningShapes), MaxLen - Len(p)) :
            fix_plan = [plan |-> p, warnings |-> w]
    /\ dry_run \in BOOLEAN
    /\ is_root \in BOOLEAN
    /\ attached \in BOOLEAN
    /\ expired \in (IF attached THEN BOOLEAN ELSE {FALSE})
    /\ pc = IF Len(full_plan) = 0 THEN "post" ELSE "loop"
    /\ i = 1
    /\ fix_status = SYSTEM_NON_VULNERABLE
    /\ unfixed_pkgs = <<>>
    /\ installed_pkgs = {}
    /\ notice = FALSE
    /\ loop_status = "none"
    /\ reboot_answer = "not_asked"
    /\ events = <<>>


\* ------------------------------------------------------------- warnings
\* FixPlanWarningPackageCannotBeInstalled: one unfixed package, the status
\* becomes SYSTEM_STILL_VULNERABLE.
WarningPackageCannotBeInstalled ==
    /\ AtStep("PackageCannotBeInstalled")
    /\ unfixed_pkgs' = unfixed_pkgs \o
           Unfixed(<<step.source_packages[1]>>, "FIX_CANNOT_INSTALL_PACKAGE")
    /\ fix_status' = SYSTEM_STILL_VULNERABLE
    /\ events' = Append(events, Event("warn_pcbi"))
    /\ Continue
    /\ UNCHANGED <<usn, EnableVars, Inputs, Host, Final, installed_pkgs>>

\* a SecurityIssueNotFixed warning that records nothing for a status that
\* is not a vulnerable one
WarningSecurityIssueNotFixedLenient ==
    /\ AtStep("SecurityIssueNotFixed")
    /\ unfixed_pkgs' =
           IF step.status \in {"not-affected", "released"}
           THEN unfixed_pkgs
           ELSE unfixed_pkgs \o
                Unfixed(step.source_packages, status_message(step.status))
    /\ fix_status' = SYSTEM_STILL_VULNERABLE
    /\ events' = Append(events, Event("warn_sinf"))
    /\ Continue
    /\ UNCHANGED <<usn, EnableVars, Inputs, Host, Final, installed_pkgs>>

\* FixPlanWarningSecurityIssueNotFixed: every source package unfixed with
\* the message of the warning's status.
WarningSecurityIssueNotFixed ==
    /\ AtStep("SecurityIssueNotFixed")
    /\ unfixed_pkgs' = unfixed_pkgs \o
           Unfixed(step.source_packages, status_message(step.status))
    /\ fix_status' = SYSTEM_STILL_VULNERABLE
    /\ events' = Append(events, Event("warn_sinf"))
    /\ Continue
    /\ UNCHANGED <<usn, EnableVars, Inputs, Host, Final, installed_pkgs>>

\* ------------------------------------------------------------- AptUpgrade
\* an AptUpgrade step that does not look at the privileges of the caller
AptBranchNoRootCheck(bin, root, dry, ok) ==
    IF bin = <<>> THEN "apt_empty"
    ELSE IF dry THEN "apt_dry"
    ELSE IF ok THEN "apt_ok"
    ELSE "apt_fail"

\* The branch an AptUpgrade step takes; ok is the outcome of
\* apt.run_apt_update_command and apt.run_apt_command (no exception).
AptBranch(bin, root, dry, ok) ==
    IF bin = <<>> THEN "apt_empty"
    ELSE IF ~root /\ ~dry THEN "apt_non_root"
    ELSE IF dry THEN "apt_dry"
    ELSE IF ok THEN "apt_ok"
    ELSE "apt_fail"

\* an AptUpgrade step whose failed apt invocation ends the loop
AptUpgradeStepFailBreaks ==
    /\ AtStep("AptUpgrade")
    /\ \E ok \in BOOLEAN :
         LET what == AptBranch(step.binary_packages, is_root, dry_run, ok) IN
         /\ fix_status' =
              IF what \in {"apt_non_root", "apt_fail"}
              THEN SYSTEM_STILL_VULNERABLE ELSE fix_status
         /\ unfixed_pkgs' =
              IF what = "apt_non_root"
              THEN unfixed_pkgs \o
                   Unfixed(step.source_packages, "SECURITY_APT_NON_ROOT")
              ELSE unfixed_pkgs
         /\ installed_pkgs' =
              IF what = "apt_ok"
              THEN installed_pkgs \cup Set(step.binary_packages)
              ELSE installed_pkgs
         /\ events' = Append(events, Event(what))
         /\ IF what = "apt_fail" THEN Break ELSE Continue
    /\ UNCHANGED <<usn, EnableVars, Inputs, Host, Final>>

AptUpgradeStep ==
    /\ AtStep("AptUpgrade")
    /\ \E ok \in BOOLEAN :
         LET what == AptBranch(step.binary_packages, is_root, dry_run, ok) IN
         /\ fix_status' =
              IF what \in {"apt_non_root", "apt_fail"}
              THEN SYSTEM_STILL_VULNERABLE ELSE fix_status
         /\ unfixed_pkgs' =
              IF what = "apt_non_root"
              THEN unfixed_pkgs \o
                   Unfixed(step.source_packages, "SECURITY_APT_NON_ROOT")
              ELSE unfixed_pkgs
         /\ installed_pkgs' =
              IF what = "apt_ok"
              THEN installed_pkgs \cup Set(step.binary_packages)
              ELSE installed_pkgs
         /\ events' = Append(events, Event(what))
    /\ Continue
    /\ UNCHANGED <<usn, EnableVars, Inputs, Host, Final>>

\* ------------------------------------------------------------- Attach
\* _perform_magic_attach: _wait raising MagicAttachTokenError is re-raised
\* after the revoke; otherwise the result of _run_ua_attach.
PerformMagicAttach(wait_ok, res) ==
    IF ~wait_ok THEN "raise" ELSE IF res THEN "true" ELSE "false"

\* _prompt_for_attach: choice is the answer to the prompt ("s", "a", "c"),
\* res the result of _run_ua_attach.
PromptForAttach(choice, wait_ok, res) ==
    IF choice = "c" THEN "false"
    ELSE IF choice = "s" THEN PerformMagicAttach(wait_ok, res)
    ELSE IF res THEN "true" ELSE "false"

\* a check that never finds the subscription expired
CheckSubscriptionNeverExpired(exp, dry) == FALSE

\* _check_subscription_is_expired
CheckSubscriptionIsExpired(exp, dry) ==
    IF exp THEN (IF dry THEN FALSE ELSE TRUE) ELSE FALSE

\* _prompt_for_new_token: choice is "r" or "c"; on "r" the host is detached
\* and res is the result of _run_ua_attach with the new token.
PromptForNewToken(choice, res) ==
    IF choice = "r" THEN res ELSE FALSE

\* a renew flow that attaches with the new token before it detaches
NewTokenCallsAttachFirst(choice) ==
    IF choice = "r" THEN <<"attach", "detach">> ELSE <<>>

\* _prompt_for_new_token: the calls it makes for an answer to the prompt,
\* in their order: cli.action_detach, then _run_ua_attach
NewTokenCalls(choice) ==
    IF choice = "r" THEN <<"detach", "attach">> ELSE <<>>

\* whether the host is attached after the calls: a detach leaves it
\* unattached, an attach attaches it when it succeeds (res)
RECURSIVE HostAfter(_, _, _)
HostAfter(att, cs, res) ==
    IF cs = <<>> THEN att
    ELSE HostAfter(IF Head(cs) = "detach" THEN FALSE ELSE (res \/ att),
                   Tail(cs), res)

\* The branch an Attach step takes: choice answers the attach prompt,
\* renew ("r", "c") the renew prompt.
AttachBranch(att, exp, dry, choice, wait_ok, renew, res) ==
    IF ~att
    THEN IF dry THEN "attach_dry"
         ELSE LET r == PromptForAttach(choice, wait_ok, res) IN
              IF r = "raise" THEN "attach_raise"
              ELSE IF r = "true" THEN "attach_ok"
              ELSE IF choice = "c" THEN "attach_cancel"
              ELSE "attach_fail"
    ELSE IF CheckSubscriptionIsExpired(exp, dry)
         THEN IF dry THEN "expired_dry"
              ELSE IF PromptForNewToken(renew, res) THEN "renew_ok"
              ELSE IF renew = "c" THEN "renew_cancel"
              ELSE "renew_fail"
         ELSE IF exp THEN "expired_dry" ELSE "attach_noop"

AttachStep ==
    /\ AtStep("Attach")
    /\ \E choice \in {"s", "a", "c"}, wait_ok \in BOOLEAN,
          renew \in {"r", "c"}, res \in BOOLEAN :
         LET what == AttachBranch(attached, expired, dry_run,
                                  choice, wait_ok, renew, res)
             failed == what \in {"attach_cancel", "attach_fail",
                                 "renew_cancel", "renew_fail"}
             reason == IF what \in {"attach_cancel", "attach_fail"}
                       THEN "SECURITY_UA_SERVICE_REQUIRED"
                       ELSE "SECURITY_UA_SERVICE_WITH_EXPIRED_SUB"
         IN
         /\ attached' =
              IF what = "attach_ok" THEN TRUE
              ELSE IF what \in {"renew_ok", "renew_cancel", "renew_fail"}
              THEN HostAfter(attached, NewTokenCalls(renew), res)
              ELSE attached
         /\ expired' =
              IF what \in {"attach_ok", "renew_ok", "renew_fail"}
              THEN FALSE ELSE expired
         /\ unfixed_pkgs' =
              IF failed
              THEN unfixed_pkgs \o Unfixed(step.source_packages, reason)
              ELSE unfixed_pkgs
         /\ fix_status' =
              IF failed THEN SYSTEM_STILL_VULNERABLE ELSE fix_status
         /\ events' = Append(events, Event(what))
         /\ IF what = "attach_raise"
            THEN i' = i + 1 /\ pc' = "raised"
            ELSE IF failed THEN Break ELSE Continue
    /\ UNCHANGED <<usn, EnableVars, Inputs, Final, installed_pkgs>>

\* ------------------------------------------------------------- Enable
\* _prompt_for_enable: choice is "e" or "c", res is whether
\* cli.action_enable returned 0.
PromptForEnable(choice, res) ==
    IF choice = "e" THEN res ELSE FALSE

\* a service that is not applicable counts as enabled
HandleSubscriptionLenient(ent_status, dry, choice, res) ==
    IF ent_status = "active" THEN TRUE
    ELSE IF ent_status = "applicable"
         THEN IF dry THEN TRUE ELSE PromptForEnable(choice, res)
         ELSE TRUE

\* _handle_subscription_for_required_service.  ent_status is "active"
\* (user_facing_status is ACTIVE), "applicable" (not active,
\* applicability_status is APPLICABLE) or "inapplicable".
HandleSubscriptionForRequiredService(ent_status, dry, choice, res) ==
    IF ent_status = "active" THEN TRUE
    ELSE IF ent_status = "applicable"
         THEN IF dry THEN TRUE ELSE PromptForEnable(choice, res)
         ELSE FALSE

\* what an Enable step met (history label)
EnableBranch(ent_status, dry, choice, res) ==
    IF ent_status = "active" THEN "enable_active"
    ELSE IF ent_status = "inapplicable" THEN "enable_inapplicable"
    ELSE IF dry THEN "enable_dry"
    ELSE IF choice = "c" THEN "enable_cancel"
    ELSE IF res THEN "enable_ok"
    ELSE "enable_fail"

EnableStep ==
    /\ AtStep("Enable")
    /\ \E ent_status \in {"active", "applicable", "inapplicable"},
          choice \in {"e", "c"}, res \in BOOLEAN :
         LET ok == HandleSubscriptionForRequiredService(
                       ent_status, dry_run, choice, res)
         IN
         /\ unfixed_pkgs' =
              IF ~ok
              THEN unfixed_pkgs \o
                   Unfixed(step.source_packages,
                           "SECURITY_UA_SERVICE_NOT_ENABLED_SHORT")
              ELSE unfixed_pkgs
         /\ fix_status' = IF ~ok THEN SYSTEM_STILL_VULNERABLE ELSE fix_status
         /\ events' = Append(events,
                Event(EnableBranch(ent_status, dry_run, choice, res)))
         /\ IF ~ok THEN Break ELSE Continue
    /\ UNCHANGED <<usn, EnableVars, Inputs, Host, Final, installed_pkgs>>

\* ------------------------------------------------------------- NoOp
\* a NoOp step that leaves the status alone
NoOpStatusKeep(status, noop_status) == status

\* the assignment of the FixPlanNoOpStep branch
NoOpStatus(status, noop_status) ==
    IF noop_status = NOT_AFFECTED THEN SYSTEM_NOT_AFFECTED ELSE status

NoOpStep ==
    /\ AtStep("NoOp")
    /\ fix_status' = NoOpStatus(fix_status, step.status)
    /\ events' = Append(events,
           Event(IF step.status = NOT_AFFECTED THEN "noop_na" ELSE "noop"))
    /\ Continue
    /\ UNCHANGED <<usn, EnableVars, Inputs, Host, Final, unfixed_pkgs, installed_pkgs>>

NoOpLivepatchFixStep ==
    /\ AtStep("NoOpLivepatchFix")
    /\ events' = Append(events, Event("livepatch"))
    /\ Continue
    /\ UNCHANGED <<usn, EnableVars, Inputs, Host, Final, fix_status, unfixed_pkgs,
                   installed_pkgs>>

NoOpAlreadyFixedStep ==
    /\ AtStep("NoOpAlreadyFixed")
    /\ events' = Append(events, Event("already_fixed"))
    /\ Continue
    /\ UNCHANGED <<usn, EnableVars, Inputs, Host, Final, fix_status, unfixed_pkgs,
                   installed_pkgs>>

\* ------------------------------------------------------------- after the loop
\* the override that ignores the unfixed packages
FinalOverrideNone(status, unfixed) == status

\* if unfixed_pkgs: fix_status = SYSTEM_STILL_VULNERABLE
FinalOverride(status, unfixed) ==
    IF unfixed # <<>> THEN SYSTEM_STILL_VULNERABLE ELSE status

\* system.should_reboot(installed_pkgs=...): the answers the reboot-pending
\* check can give for a set of installed packages
should_reboot(installed) == BOOLEAN

\* a reboot check that always upgrades the status
RebootStatusAlways(status, reboot) == SYSTEM_VULNERABLE_UNTIL_REBOOT

\* the status after the reboot check
RebootStatus(status, reboot) ==
    IF status = SYSTEM_NON_VULNERABLE /\ reboot
    THEN SYSTEM_VULNERABLE_UNTIL_REBOOT ELSE status

\* The code after the loop: the override, the reboot check (asked only when
\* the status is still SYSTEM_NON_VULNERABLE), the notice, the return.
Finish ==
    /\ pc = "post"
    /\ loop_status' = fix_status
    /\ LET st == FinalOverride(fix_status, unfixed_pkgs) IN
       IF st = SYSTEM_NON_VULNERABLE
       THEN \E reboot \in should_reboot(installed_pkgs) :
              /\ reboot_answer' = IF reboot THEN "yes" ELSE "no"
              /\ fix_status' = RebootStatus(st, reboot)
              /\ notice' = reboot
       ELSE /\ reboot_answer' = "not_asked"
            /\ fix_status' = RebootStatus(st, FALSE)
            /\ notice' = notice
    /\ pc' = "done"
    /\ UNCHANGED <<usn, EnableVars, Inputs, Host, i, unfixed_pkgs, installed_pkgs, events>>

\* ------------------------------------------------------------- specification
Next ==
    \/ WarningPackageCannotBeInstalled
    \/ WarningSecurityIssueNotFixed
    \/ AptUpgradeStep
    \/ AttachStep
    \/ EnableStep
    \/ NoOpStep
    \/ NoOpLivepatchFixStep
    \/ NoOpAlreadyFixedStep
    \/ Finish

Spec == Init /\ [][Next]_vars

\* ------------------------------------------------------------- shorthands
\* the positions of full_plan processed so far, in processing order
processed == [k \in 1..Len(events) |-> events[k].idx]

Whats == { events[k].what : k \in 1..Len(events) }

returned == pc = "done"

TypeOK ==
    /\ pc \in {"loop", "post", "done", "raised"}
    /\ fix_status \in {SYSTEM_NON_VULNERABLE, SYSTEM_NOT_AFFECTED,
                       SYSTEM_STILL_VULNERABLE, SYSTEM_VULNERABLE_UNTIL_REBOOT}
    /\ i \in 1..(Len(full_plan) + 1)
    /\ Len(events) = i - 1

\* the branches in which the code assigns SYSTEM_STILL_VULNERABLE
SVEvents ==
    {"warn_pcbi", "warn_sinf", "apt_non_root", "apt_fail",
     "attach_cancel", "attach_fail", "renew_cancel", "renew_fail",
     "enable_inapplicable", "enable_cancel", "enable_fail"}

\* the unfixed packages recorded while the k-th processed entry was handled
StepUnfixed(k) ==
    SubSeq(unfixed_pkgs, events[k].ub + 1,
           IF k < Len(events) THEN events[k + 1].ub ELSE Len(unfixed_pkgs))

PkgNames(u) == [k \in 1..Len(u) |-> u[k].pkg]

Kinds == { full_plan[k].kind : k \in 1..Len(full_plan) }

\* entry a comes before entry b: smaller order, or equal order and earlier
\* position in the merged sequence
Before(a, b) ==
    \/ full_plan[a].order < full_plan[b].order
    \/ full_plan[a].order = full_plan[b].order /\ a < b

\* ------------------------------------------------------------- claims

\* C1: once an entry has set the status to StillVulnerable (warning,
\* non-root AptUpgrade, failed apt invocation, failed Attach or Enable), no
\* later entry changes it and the returned status is StillVulnerable.
C1_StillVulnerableAbsorbing ==
    (returned /\ Whats \cap SVEvents # {})
        => fix_status = SYSTEM_STILL_VULNERABLE

\* C2: the entries of plan followed by warnings are processed in
\* non-decreasing order, entries of equal order in their position in the
\* merged sequence; each at most once and none before an entry that
\* precedes it: when an entry is processed, the entries processed before it
\* are exactly those that come before it.
C2_ProcessedInOrder ==
    \A k \in 1..Len(processed) :
        { j \in 1..Len(full_plan) : Before(j, processed[k]) }
            = { processed[m] : m \in 1..(k - 1) }

\* C2 witness: a warning of smaller order was processed before a step that
\* stands earlier in the merged sequence.
C2_Witness ==
    /\ returned
    /\ Len(fix_plan.plan) = 1 /\ Len(fix_plan.warnings) = 1
    /\ full_plan[1].order > full_plan[2].order
    /\ processed = <<2, 1>>

\* C3: an Attach step processed in a non-dry run on an unattached host whose
\* attach prompt does not end in a successful attach makes the run return
\* StillVulnerable with every source package of the step unfixed, and no
\* later entry is processed.
C3_AttachEarlyStop ==
    \A k \in 1..Len(events) :
        (/\ events[k].what \in {"attach_cancel", "attach_fail", "attach_raise"}
         /\ pc \in {"done", "raised"})
        => /\ returned
           /\ fix_status = SYSTEM_STILL_VULNERABLE
           /\ Set(full_plan[events[k].idx].source_packages)
                 \subseteq Set(PkgNames(unfixed_pkgs))
           /\ k = Len(events)

\* C4: an Enable step whose service is not active and is not applicable, or
\* is applicable but whose prompt is cancelled or whose enable fails, stops
\* the run: StillVulnerable is returned, the step's source packages are
\* unfixed and no later entry is processed.  When the service is active or
\* the enable succeeds the step records no unfixed package and the next
\* entry is processed.
C4_EnableEarlyStop ==
    \A k \in 1..Len(events) :
        /\ events[k].what \in
               {"enable_inapplicable", "enable_cancel", "enable_fail"}
           => /\ k = Len(events)
              /\ pc \in {"post", "done"}
              /\ PkgNames(StepUnfixed(k))
                    = full_plan[events[k].idx].source_packages
              /\ returned => fix_status = SYSTEM_STILL_VULNERABLE
        /\ events[k].what \in {"enable_active", "enable_ok"}
           => /\ StepUnfixed(k) = <<>>
              /\ k < Len(full_plan) => (Len(events) > k \/ pc = "loop")

\* C4 witness: a run stopped by an Enable step with entries left, and it
\* returned.
C4_Witness ==
    /\ returned
    /\ Len(events) = 1 /\ Len(full_plan) = 2
    /\ events[1].what \in {"enable_inapplicable", "enable_cancel", "enable_fail"}

\* C5: a non-empty returned unfixed list comes with StillVulnerable,
\* whatever the loop had computed.
C5_FinalOverride ==
    (returned /\ unfixed_pkgs # <<>>)
        => fix_status = SYSTEM_STILL_VULNERABLE

\* C5 witness: the loop ended with NotAffected and unfixed packages.
C5_Witness ==
    /\ returned
    /\ unfixed_pkgs # <<>>
    /\ loop_status = SYSTEM_NOT_AFFECTED

\* C6: a returned StillVulnerable comes with at least one unfixed package,
\* and every unfixed package has a non-empty reason.
C6_AttributableReason ==
    (returned /\ fix_status = SYSTEM_STILL_VULNERABLE)
        => /\ unfixed_pkgs # <<>>
           /\ \A k \in 1..Len(unfixed_pkgs) :
                  unfixed_pkgs[k].unfixed_reason # ""

\* C7: the returned unfixed list holds each package name at most once.
C7_Deduplicated ==
    returned =>
        \A j, k \in 1..Len(unfixed_pkgs) :
            j # k => unfixed_pkgs[j].pkg # unfixed_pkgs[k].pkg

\* a plan without Attach step, Enable step and warning, none of whose
\* package-manager invocations failed
C8_Pre ==
    /\ Kinds \cap {"Attach", "Enable", "PackageCannotBeInstalled",
                   "SecurityIssueNotFixed"} = {}
    /\ "apt_fail" \notin Whats

C8_Post ==
    /\ fix_status \in {SYSTEM_NON_VULNERABLE, SYSTEM_VULNERABLE_UNTIL_REBOOT}
    /\ fix_status = SYSTEM_VULNERABLE_UNTIL_REBOOT => reboot_answer = "yes"
    /\ unfixed_pkgs = <<>>

\* C8 as stated: a plan with no Attach step, no Enable step and no warning
\* whose package-manager invocations all succeed returns NonVulnerable, or
\* VulnerableUntilReboot when a reboot became required, and no unfixed
\* package.
C8_Original ==
    (returned /\ C8_Pre) => C8_Post

\* C8 amended: the same for a plan that also has no NoOp step with status
\* not-affected and is run by root or as a dry run.
C8_UpgradesSucceed ==
    (/\ returned
     /\ C8_Pre
     /\ \A k \in 1..Len(full_plan) :
            ~(full_plan[k].kind = "NoOp" /\ full_plan[k].status = NOT_AFFECTED)
     /\ is_root \/ dry_run)
        => C8_Post

\* C8 witness: an upgrade was installed and the reboot check upgraded the
\* status.
C8_Witness ==
    /\ returned
    /\ C8_Pre
    /\ "apt_ok" \in Whats
    /\ "noop_na" \notin Whats
    /\ fix_status = SYSTEM_VULNERABLE_UNTIL_REBOOT

SVAfterNotAffected ==
    \E k \in 1..Len(events) :
        /\ events[k].what \in SVEvents
        /\ \A m \in k..Len(events) : events[m].what # "noop_na"

C10_RebootOnlyAfterInstall ==
    (returned /\ fix_status = SYSTEM_VULNERABLE_UNTIL_REBOOT)
        => /\ loop_status = SYSTEM_NON_VULNERABLE
           /\ unfixed_pkgs = <<>>
           /\ Whats \cap (SVEvents \cup {"noop_na"}) = {}
           /\ "apt_ok" \in Whats
           /\ installed_pkgs # {}
           /\ reboot_answer = "yes"
           /\ ~dry_run

\* the branches in which the package manager is invoked
AptCalls == {"apt_ok", "apt_fail"}

\* the branches in which a prompt is issued and answered
PromptEvents ==
    {"attach_cancel", "attach_fail", "attach_raise", "attach_ok",
     "renew_cancel", "renew_fail", "renew_ok",
     "enable_cancel", "enable_fail", "enable_ok"}

\* the branches in which an attach, a detach or an enable is attempted
MutatingEvents ==
    {"attach_fail", "attach_raise", "attach_ok", "renew_fail", "renew_ok",
     "enable_fail", "enable_ok"}

\* C11: a plan whose only entry is an AptUpgrade step with no binary
\* package returns (NonVulnerable, []) without a package-manager invocation,
\* for every dry_run, privilege level and reboot-pending state.
C11_EmptyUpgrade ==
    (/\ returned
     /\ Len(full_plan) = 1
     /\ full_plan[1].kind = "AptUpgrade"
     /\ full_plan[1].binary_packages = <<>>)
        => /\ fix_status = SYSTEM_NON_VULNERABLE
           /\ unfixed_pkgs = <<>>
           /\ Whats \cap AptCalls = {}

\* C12: a dry run never invokes the package manager, performs no attach,
\* detach or enable, issues no prompt and writes no persistent state, the
\* reboot-required notice included.
C12_DryRunNoSideEffect ==
    dry_run
        => /\ Whats \cap (AptCalls \cup PromptEvents \cup MutatingEvents) = {}
           /\ installed_pkgs = {}
           /\ notice = FALSE

\* C13: an AptUpgrade step with binary packages processed by a non-root
\* caller in a non-dry run invokes no package manager, records every source
\* package of the step as unfixed with the elevated-privileges reason, sets
\* StillVulnerable, and the entries after it are still processed.
C13_NonRootUpgrade ==
    \A k \in 1..Len(events) :
        (/\ full_plan[events[k].idx].kind = "AptUpgrade"
         /\ full_plan[events[k].idx].binary_packages # <<>>
         /\ ~is_root /\ ~dry_run)
        => /\ events[k].what \notin AptCalls
           /\ StepUnfixed(k) =
                 Unfixed(full_plan[events[k].idx].source_packages,
                         "SECURITY_APT_NON_ROOT")
           /\ (k = Len(events) /\ pc \in {"loop", "post"})
                 => fix_status = SYSTEM_STILL_VULNERABLE
           /\ k < Len(full_plan) => (Len(events) > k \/ pc = "loop")
           /\ installed_pkgs = {}

\* C13 witness: the non-root upgrade was followed by another entry, and the
\* run returned.
C13_Witness ==
    /\ returned
    /\ ~is_root /\ ~dry_run
    /\ Len(events) = 2
    /\ events[1].what = "apt_non_root"
    /\ fix_status = SYSTEM_STILL_VULNERABLE

\* C14: for every plan and every outcome of the collaborators the run ends
\* by returning a (status, unfixed list) pair; a blocking failure of an
\* Attach or Enable step never leaves the engine as a fault.
C14_CleanTermination ==
    /\ pc # "raised"
    /\ (pc = "post" /\ Whats \cap {"attach_cancel", "attach_fail",
                                    "renew_cancel", "renew_fail",
                                    "enable_inapplicable", "enable_cancel",
                                    "enable_fail"} # {})
          => fix_status = SYSTEM_STILL_VULNERABLE

\* ------------------------------------------------------------- lock
\* The lock manager (uaclient/lock.py), after its contract: acquire is
\* exclusive, a lock file of a process that is gone is stale and cleared by
\* the acquisition, release clears the file only when it still records the
\* releasing holder and pid, clear_lock_file_if_present removes the file.

\* is the process recorded in a lock file alive
PidAlive(pid) == pid \in Procs

\* a lock file left by a holder that is gone
StaleLock == [lock_holder |-> "pro.attach", lock_pid |-> 0]

\* the acquisition can succeed: no lock file, or a stale one
LockFree(lf) == lf = NoLock \/ ~PidAlive(lf.lock_pid)

\* the lock file written by SpinLock(lock_holder=holder) of process p
Acquired(holder, p) == [lock_holder |-> holder, lock_pid |-> p]

\* the lock file after the release by (holder, p)
Released(lf, holder, p) ==
    IF lf = Acquired(holder, p) THEN NoLock ELSE lf

\* the lock file after lock.clear_lock_file_if_present()
ClearIfPresent(lf) == NoLock

\* ------------------------------------------------------------- _enable
\* sorted(list(S)) for a set of service names
RECURSIVE SortedFrom(_, _)
SortedFrom(S, k) ==
    IF k > Len(ServiceNames) THEN <<>>
    ELSE (IF ServiceNames[k] \in S THEN <<ServiceNames[k]>> ELSE <<>>)
         \o SortedFrom(S, k + 1)

sorted_list(S) == SortedFrom(S, 1)

\* the error of the checks at the head of _enable without the service check
PreconditionErrorNoService(root, att, service) ==
    IF ~root THEN "NonRootUserError"
    ELSE IF ~att THEN "UnattachedError"
    ELSE ""

\* the error raised by the checks at the head of _enable, "" if none
PreconditionError(root, att, service) ==
    IF ~root THEN "NonRootUserError"
    ELSE IF ~att THEN "UnattachedError"
    ELSE IF service = "landscape" THEN "NotSupported"
    ELSE ""

\* a check that never finds the service enabled
AlreadyEnabledNever(service, before) == FALSE

\* options.service in enabled_services_before
AlreadyEnabled(service, before) == service \in before

\* an enabled list that names every enabled service
ResultEnabledAll(before, after) == sorted_list(after)

\* EnableResult.enabled and EnableResult.disabled
ResultEnabled(before, after) == sorted_list(after \ before)
ResultDisabled(before, after) == sorted_list(before \ after)

\* the services that can be enabled on the host
Enablable == ServiceSet \ {"landscape"}

\* entitlement.enable(...): what it can return and the enabled services it
\* leaves.  A success leaves the service enabled and may enable or disable
\* others; a failure leaves the services as they were.
EnableOutcomes(service, current) ==
    { [success |-> TRUE, services |-> S] :
          S \in { T \in SUBSET Enablable : service \in T } }
    \cup { [success |-> FALSE, services |-> current] }

Terminal == {"idle", "returned", "raised"}

\* the variables of the fix run, at rest while _enable is called
FixQuiet ==
    /\ fix_plan = [plan |-> <<>>, warnings |-> <<>>]
    /\ dry_run = FALSE
    /\ is_root = FALSE
    /\ expired = FALSE
    /\ pc = "done"
    /\ i = 1
    /\ fix_status = SYSTEM_NON_VULNERABLE
    /\ unfixed_pkgs = <<>>
    /\ installed_pkgs = {}
    /\ notice = FALSE
    /\ loop_status = "none"
    /\ reboot_answer = "not_asked"
    /\ events = <<>>

InitEnable ==
    /\ FixQuiet
    /\ UsnQuiet
    /\ attached \in BOOLEAN
    /\ services \in SUBSET Enablable
    /\ lock_file \in {NoLock, StaleLock}
    /\ proc = [p \in Procs |-> IdleProc]
    /\ calls = 0

\* process p calls _enable(options) with options.service = service
Call(p) ==
    /\ proc[p].pc \in Terminal
    /\ calls < MaxCalls
    /\ \E service \in ServiceSet, root \in BOOLEAN :
         proc' = [proc EXCEPT ![p] =
                    [IdleProc EXCEPT !.pc = "started", !.service = service,
                                     !.root = root]]
    /\ calls' = calls + 1
    /\ UNCHANGED <<usn, FixVars, services, lock_file>>

\* the checks, the snapshot enabled_services_before and the early return
Preconditions(p) ==
    /\ proc[p].pc = "started"
    /\ LET err == PreconditionError(proc[p].root, attached, proc[p].service)
       IN
       proc' = [proc EXCEPT ![p] =
           IF err # ""
           THEN [@ EXCEPT !.pc = "raised", !.error = err]
           ELSE IF AlreadyEnabled(proc[p].service, services)
           THEN [@ EXCEPT !.pc = "returned", !.before = services,
                          !.result = EnableResult(<<>>, <<>>, FALSE)]
           ELSE [@ EXCEPT !.pc = "acquire", !.before = services]]
    /\ UNCHANGED <<usn, FixVars, services, lock_file, calls>>

\* an acquisition that takes the lock only when there is no lock file
AcquireNoHeal(p) ==
    /\ proc[p].pc = "acquire"
    /\ lock_file = NoLock
    /\ lock_file' = Acquired(LockHolder, p)
    /\ proc' = [proc EXCEPT ![p].pc = "locked", ![p].acquired = TRUE,
                            ![p].healed = (lock_file # NoLock)]
    /\ UNCHANGED <<usn, FixVars, services, calls>>

\* with lock.SpinLock(...): the lock is taken
Acquire(p) ==
    /\ proc[p].pc = "acquire"
    /\ LockFree(lock_file)
    /\ lock_file' = Acquired(LockHolder, p)
    /\ proc' = [proc EXCEPT ![p].pc = "locked", ![p].acquired = TRUE,
                            ![p].healed = (lock_file # NoLock)]
    /\ UNCHANGED <<usn, FixVars, services, calls>>

\* with lock.SpinLock(...): the lock is held by a live process until the
\* retries are used up, LockHeldError is raised
AcquireFail(p) ==
    /\ proc[p].pc = "acquire"
    /\ ~LockFree(lock_file)
    /\ proc' = [proc EXCEPT ![p].pc = "handler",
                            ![p].error = "LockHeldError"]
    /\ UNCHANGED <<usn, FixVars, services, lock_file, calls>>

\* entitlement.enable(...) inside the locked region: it returns
\* (success, fail_reason) or raises
EntitlementEnable(p) ==
    /\ proc[p].pc = "locked"
    /\ \E raises \in BOOLEAN :
         \E out \in EnableOutcomes(proc[p].service, services) :
            IF raises
            THEN /\ proc' = [proc EXCEPT ![p].pc = "exit",
                                         ![p].called = TRUE,
                                         ![p].outcome = "raise",
                                         ![p].error = "Exception"]
                 /\ UNCHANGED services
            ELSE /\ proc' = [proc EXCEPT
                        ![p].pc = "exit", ![p].called = TRUE,
                        ![p].outcome = IF out.success THEN "ok" ELSE "fail"]
                 /\ services' = out.services
    /\ UNCHANGED <<usn, FixVars, lock_file, calls>>

\* a with block whose exit leaves the lock file as it is
ReleaseKeepsLock(p) ==
    /\ proc[p].pc = "exit"
    /\ proc' = [proc EXCEPT ![p].pc =
                   IF proc[p].outcome = "raise" THEN "handler" ELSE "after",
                            ![p].healed = FALSE]
    /\ UNCHANGED <<usn, FixVars, services, lock_file, calls>>

\* the end of the with block: the lock is released
Release(p) ==
    /\ proc[p].pc = "exit"
    /\ lock_file' = Released(lock_file, LockHolder, p)
    /\ proc' = [proc EXCEPT ![p].pc =
                   IF proc[p].outcome = "raise" THEN "handler" ELSE "after",
                            ![p].healed = FALSE]
    /\ UNCHANGED <<usn, FixVars, services, calls>>

\* a handler whose clear raises when there is no lock file to remove
HandlerClearRaises(p) ==
    /\ proc[p].pc = "handler"
    /\ lock_file' = ClearIfPresent(lock_file)
    /\ proc' = [proc EXCEPT ![p].pc = "raised",
                            ![p].error = IF lock_file = NoLock
                                         THEN "FileNotFoundError" ELSE @]
    /\ UNCHANGED <<usn, FixVars, services, calls>>

\* except Exception: lock.clear_lock_file_if_present(); raise e
Handler(p) ==
    /\ proc[p].pc = "handler"
    /\ lock_file' = ClearIfPresent(lock_file)
    /\ proc' = [proc EXCEPT ![p].pc = "raised"]
    /\ UNCHANGED <<usn, FixVars, services, calls>>

\* after the try: EntitlementNotEnabledError, or the second snapshot and
\* the EnableResult
AfterLock(p) ==
    /\ proc[p].pc = "after"
    /\ \E reboot \in BOOLEAN :
         proc' = [proc EXCEPT ![p] =
             IF proc[p].outcome # "ok"
             THEN [@ EXCEPT !.pc = "raised",
                            !.error = "EntitlementNotEnabledError"]
             ELSE [@ EXCEPT !.pc = "returned",
                            !.result = EnableResult(
                                ResultEnabled(proc[p].before, services),
                                ResultDisabled(proc[p].before, services),
                                reboot)]]
    /\ UNCHANGED <<usn, FixVars, services, lock_file, calls>>

NextEnable ==
    \/ \E p \in Procs : Call(p)
    \/ \E p \in Procs : Preconditions(p)
    \/ \E p \in Procs : Acquire(p)
    \/ \E p \in Procs : AcquireFail(p)
    \/ \E p \in Procs : EntitlementEnable(p)
    \/ \E p \in Procs : Release(p)
    \/ \E p \in Procs : Handler(p)
    \/ \E p \in Procs : AfterLock(p)

SpecEnable == InitEnable /\ [][NextEnable]_vars

\* p is inside the locked region
InLocked(p) == proc[p].pc \in {"locked", "exit"}

TypeOKEnable ==
    /\ services \subseteq ServiceSet
    /\ calls \in 0..MaxCalls
    /\ \A p \in Procs :
          proc[p].pc \in {"idle", "started", "acquire", "locked", "exit",
                          "handler", "after", "returned", "raised"}

\* the elements of a list
Elems(s) == { s[k] : k \in 1..Len(s) }

\* C15: lock mutual exclusion: in every interleaving at most one process is
\* inside the locked region (between taking the lock and leaving the with
\* block) at any time.
C15_MutualExclusion == Cardinality({ p \in Procs : InLocked(p) }) <= 1

\* C16: a held lock is never overridden: a call that finds the lock held by
\* another live process fails with LockHeldError without entering the locked
\* region, and while a process is inside the locked region the lock file
\* records it as the holder: no other caller removes or replaces it.
C16_HeldLockKept ==
    /\ \A p \in Procs :
          proc[p].error = "LockHeldError"
          => ~proc[p].acquired /\ ~proc[p].called
             /\ proc[p].pc \in {"handler", "raised"}
    /\ \A q \in Procs :
          InLocked(q) => lock_file = Acquired(LockHolder, q)

\* C17: no dangling lock: once a call that took the lock has ended (return,
\* EntitlementNotEnabledError, or an exception raised inside the locked
\* region) the lock file does not record that call as the holder, and when no
\* call is in progress the lock can be acquired.
C17_NoDanglingLock ==
    /\ \A p \in Procs :
          (proc[p].pc \in {"returned", "raised"} /\ proc[p].acquired)
          => lock_file # Acquired(LockHolder, p)
    /\ (\A p \in Procs : proc[p].pc \in Terminal) => LockFree(lock_file)

\* two calls that took the lock have ended, one by an exception raised inside
\* the locked region and one by EntitlementNotEnabledError
C17_Witness ==
    \E p, q \in Procs :
       /\ proc[p].pc = "raised" /\ proc[p].acquired
       /\ proc[p].error = "Exception"
       /\ proc[q].pc = "raised" /\ proc[q].acquired
       /\ proc[q].error = "EntitlementNotEnabledError"
       /\ LockFree(lock_file)

\* C18: enable diff correctness: a call that returns after entitlement.enable
\* succeeded reports enabled = sorted(after - before) and disabled =
\* sorted(before - after), where after is the set of enabled services at the
\* return (read again after the mutation) and before the snapshot of the
\* start; the two are disjoint, and with before = {esm-infra}, enabling fips
\* which disables esm-infra gives enabled = [fips], disabled = [esm-infra].
C18_EnableDiff ==
    [][\A p \in Procs :
          (proc[p].pc = "after" /\ proc'[p].pc = "returned")
          => LET r == proc'[p].result
                 b == proc[p].before
             IN /\ proc[p].called /\ proc[p].outcome = "ok"
                /\ r.enabled = sorted_list(services \ b)
                /\ r.disabled = sorted_list(b \ services)
                /\ Elems(r.enabled) \cap Elems(r.disabled) = {}
                /\ (b = {"esm-infra"} /\ proc[p].service = "fips"
                      /\ services = {"fips"})
                   => (r.enabled = <<"fips">>
                       /\ r.disabled = <<"esm-infra">>)]_vars

\* the cascade: fips enabled on a host with esm-infra, which it disabled
C18_Witness ==
    \E p \in Procs :
       /\ proc[p].pc = "returned" /\ proc[p].called
       /\ proc[p].service = "fips" /\ proc[p].before = {"esm-infra"}
       /\ proc[p].result.enabled = <<"fips">>
       /\ proc[p].result.disabled = <<"esm-infra">>

\* C19: precondition errors fail fast: the checks of a call by a non-root
\* caller raise NonRootUserError, by root on an unattached host raise
\* UnattachedError, by root on an attached host for landscape raise
\* NotSupported; the call ends there, it has not taken the lock nor called
\* entitlement.enable, and the enabled services and the lock file are as
\* they were.
C19_FailFast ==
    [][\A p \in Procs :
          (proc[p].pc = "started" /\ proc'[p].pc # "started"
             /\ (~proc[p].root \/ ~attached
                   \/ proc[p].service = "landscape"))
          => /\ proc'[p].pc = "raised"
             /\ proc'[p].error =
                   IF ~proc[p].root THEN "NonRootUserError"
                   ELSE IF ~attached THEN "UnattachedError"
                   ELSE "NotSupported"
             /\ ~proc'[p].acquired /\ ~proc'[p].called
             /\ services' = services
             /\ lock_file' = lock_file]_vars

\* the three errors have been raised: landscape by root on an attached host,
\* while another call is inside the locked region, or by a non-root caller;
\* or an unattached host
C19_Witness ==
    \E p, q \in Procs :
       /\ p # q
       /\ proc[p].pc = "raised" /\ ~proc[p].acquired
       /\ \/ proc[p].error = "NotSupported" /\ InLocked(q)
          \/ proc[p].error = "UnattachedError"
                /\ proc[q].error = "NonRootUserError"

\* C20: already enabled is a success without effect: when the service is in
\* the snapshot of the start, the call returns enabled = [], disabled = [],
\* reboot_required = false, it has not taken the lock nor called
\* entitlement.enable, and the enabled services and the lock file are as
\* they were.
C20_AlreadyEnabledNoOp ==
    [][\A p \in Procs :
          (proc[p].pc = "started" /\ proc'[p].pc # "started"
             /\ proc[p].root /\ attached /\ proc[p].service # "landscape"
             /\ proc[p].service \in services)
          => /\ proc'[p].pc = "returned"
             /\ proc'[p].result = EnableResult(<<>>, <<>>, FALSE)
             /\ ~proc'[p].acquired /\ ~proc'[p].called
             /\ services' = services
             /\ lock_file' = lock_file]_vars

\* a second enable of a service after the one that enabled it
C20_Witness ==
    \E p, q \in Procs :
       /\ p # q
       /\ proc[q].pc = "returned" /\ proc[q].called
       /\ proc[q].service \in Elems(proc[q].result.enabled)
       /\ proc[p].pc = "returned" /\ ~proc[p].called /\ ~proc[p].acquired
       /\ proc[p].service = proc[q].service
       /\ proc[p].service \in proc[p].before
       /\ proc[p].result = EnableResult(<<>>, <<>>, FALSE)

\* the lock file records a process that is gone
Stale(lf) == lf # NoLock /\ ~PidAlive(lf.lock_pid)

C23_HolderIdentity ==
    \A p \in Procs :
       InLocked(p)
       => lock_file = [lock_holder |-> "services.enable", lock_pid |-> p]

\* C24: a failed package-manager invocation is recorded: the source
\* packages of an AptUpgrade step whose apt invocation failed (root, no dry
\* run) are appended to the unfixed list by that step, and the run returns
\* StillVulnerable with them in the unfixed list.
C24_AptFailureRecorded ==
    \A k \in 1..Len(events) :
       events[k].what = "apt_fail"
       => /\ PkgNames(StepUnfixed(k))
                = full_plan[events[k].idx].source_packages
          /\ returned
             => /\ fix_status = SYSTEM_STILL_VULNERABLE
                /\ Set(full_plan[events[k].idx].source_packages)
                      \subseteq Set(PkgNames(unfixed_pkgs))

\* C25: a failed package-manager invocation is not fatal and rolls nothing
\* back: the step whose apt invocation failed leaves the installed set as it
\* was (nothing of it added, nothing of earlier steps removed), the loop goes
\* on with the entry ordered after it, and no step ever removes a package
\* from the installed set.
C25_AptFailureNotFatal ==
    [][/\ installed_pkgs \subseteq installed_pkgs'
       /\ (Len(events') = Len(events) + 1
             /\ events'[Len(events')].what = "apt_fail")
          => /\ installed_pkgs' = installed_pkgs
             /\ i' = i + 1
             /\ pc' = IF i < Len(full_plan) THEN "loop" ELSE "post"]_vars

\* the entry after a failed AptUpgrade step was processed, an upgrade that
\* installed its packages, and the run returned
C25_Witness ==
    /\ returned
    /\ Len(events) = 2
    /\ events[1].what = "apt_fail" /\ events[2].what = "apt_ok"
    /\ installed_pkgs = {"bin1"}
    /\ fix_status = SYSTEM_STILL_VULNERABLE

\* C26: warnings always worsen the outcome: a processed
\* PackageCannotBeInstalled warning appends its source_package to the
\* unfixed list, a processed SecurityIssueNotFixed warning each of its
\* source_packages whatever its status; the loop goes on after a warning;
\* and a run that processed a warning with at least one package returns
\* StillVulnerable.
C26_WarningsWorsen ==
    \A k \in 1..Len(events) :
       LET w == full_plan[events[k].idx] IN
       /\ events[k].what = "warn_pcbi"
          => PkgNames(StepUnfixed(k)) = <<w.source_packages[1]>>
       /\ events[k].what = "warn_sinf"
          => PkgNames(StepUnfixed(k)) = w.source_packages
       /\ events[k].what \in {"warn_pcbi", "warn_sinf"}
          => /\ (k = Len(events) /\ k < Len(full_plan)) => pc = "loop"
             /\ (returned /\ w.source_packages # <<>>)
                => fix_status = SYSTEM_STILL_VULNERABLE

\* a warning with status not-affected was processed, then a NoOp step set
\* the status to NotAffected, and the run returned StillVulnerable
C26_Witness ==
    /\ returned
    /\ Len(events) = 2
    /\ events[1].what = "warn_sinf"
    /\ full_plan[events[1].idx].status = "not-affected"
    /\ events[2].what = "noop_na"
    /\ loop_status = SYSTEM_NOT_AFFECTED
    /\ fix_status = SYSTEM_STILL_VULNERABLE
    /\ Len(unfixed_pkgs) = 2

\* the label of the entry processed by the step, "" if the step processed none
Processed ==
    IF Len(events') = Len(events) + 1 THEN events'[Len(events')].what ELSE ""

\* the packages appended to the unfixed list by the step
Appended ==
    PkgNames(SubSeq(unfixed_pkgs', Len(unfixed_pkgs) + 1, Len(unfixed_pkgs')))

\* C27: expired subscription: an Attach step processed in a non-dry run on
\* an attached host whose subscription is expired issues the renew prompt;
\* when the prompt is cancelled or the new attach fails the step appends
\* every source package of it to the unfixed list, sets StillVulnerable and
\* ends the loop, no later entry is processed and the run returns
\* StillVulnerable.  On an attached host whose subscription is not expired
\* the Attach step issues no prompt and changes neither the status nor the
\* unfixed list.
C27_ExpiredSubscription ==
    [][/\ (AtStep("Attach") /\ Processed # "" /\ attached /\ expired
             /\ ~dry_run)
          => /\ Processed \in {"renew_ok", "renew_cancel", "renew_fail"}
             /\ Processed \in {"renew_cancel", "renew_fail"}
                => /\ Appended = step.source_packages
                   /\ fix_status' = SYSTEM_STILL_VULNERABLE
                   /\ pc' = "post"
       /\ (AtStep("Attach") /\ Processed # "" /\ attached /\ ~expired)
          => /\ Processed = "attach_noop"
             /\ fix_status' = fix_status
             /\ unfixed_pkgs' = unfixed_pkgs
             /\ pc' = IF i < Len(full_plan) THEN "loop" ELSE "post"
       /\ \A k \in 1..Len(events) :
             events[k].what \in {"renew_cancel", "renew_fail"}
             => /\ k = Len(events')
                /\ pc' \in {"post", "done"}
                /\ pc' = "done" => fix_status' = SYSTEM_STILL_VULNERABLE]_vars

\* a renew whose attach failed stopped a run of two entries, which returned
C27_Witness ==
    /\ returned
    /\ Len(full_plan) = 2 /\ Len(events) = 1
    /\ events[1].what = "renew_fail"
    /\ PkgNames(unfixed_pkgs) = full_plan[events[1].idx].source_packages
    /\ fix_status = SYSTEM_STILL_VULNERABLE

\* ------------------------------------------------------------- fix_usn
\* what a call of execute_fix_plan ends with: a returned status, or the
\* exception of _perform_magic_attach
ExecuteFixPlanResults == FixStatusValues \cup {"raise"}

\* a fix_usn that runs the related plans whatever no_related says
RunsRelatedAlways(target_status, related, no_related) ==
    /\ target_status \in {SYSTEM_NON_VULNERABLE, SYSTEM_NOT_AFFECTED}
    /\ related # <<>>

\* the two early returns after the target plan are not taken
RunsRelated(target_status, related, no_related) ==
    /\ target_status \in {SYSTEM_NON_VULNERABLE, SYSTEM_NOT_AFFECTED}
    /\ ~(related = <<>> \/ no_related)

\* related_usn_status[title] = status
DictSet(d, title, status) ==
    [t \in DOMAIN d \cup {title} |-> IF t = title THEN status ELSE d[t]]

\* failure_on_related_usn after the summary loop
FailureOnRelated(related, d) ==
    \E k \in 1..Len(related) :
       d[related[k]] \in {SYSTEM_VULNERABLE_UNTIL_REBOOT,
                          SYSTEM_STILL_VULNERABLE}

InitUsn ==
    /\ FixQuiet
    /\ EnableQuiet
    /\ attached = FALSE
    /\ \E error \in BOOLEAN, no_related \in BOOLEAN :
         \E related \in SeqsUpTo(Titles, MaxRelated) :
            usn = UsnCall(error, no_related, related)

\* usn_plan(...) and the error of the target plan
UsnStart ==
    /\ usn.pc = "start"
    /\ usn' = [usn EXCEPT !.pc = IF usn.error THEN "raised" ELSE "target"]
    /\ UNCHANGED <<FixVars, EnableVars>>

\* execute_fix_plan of the target plan and the two early returns
ExecuteTarget ==
    /\ usn.pc = "target"
    /\ \E r \in ExecuteFixPlanResults :
         usn' =
           IF r = "raise" THEN [usn EXCEPT !.pc = "raised"]
           ELSE IF RunsRelated(r, usn.related, usn.no_related)
           THEN [usn EXCEPT !.pc = "related", !.target_usn_status = r,
                            !.log = Append(@, [plan |-> 0, status |-> r])]
           ELSE [usn EXCEPT !.pc = "returned", !.target_usn_status = r,
                            !.result = r,
                            !.log = Append(@, [plan |-> 0, status |-> r])]
    /\ UNCHANGED <<FixVars, EnableVars>>

\* one round of the loop over related_usns_plan
ExecuteRelated ==
    /\ usn.pc = "related"
    /\ usn.j <= Len(usn.related)
    /\ \E r \in ExecuteFixPlanResults :
         usn' =
           IF r = "raise" THEN [usn EXCEPT !.pc = "raised"]
           ELSE [usn EXCEPT
                   !.related_usn_status =
                       DictSet(@, usn.related[usn.j], r),
                   !.log = Append(@, [plan |-> usn.j, status |-> r]),
                   !.j = @ + 1,
                   !.pc = IF usn.j + 1 > Len(usn.related)
                          THEN "summary" ELSE "related"]
    /\ UNCHANGED <<FixVars, EnableVars>>

\* the summary and the return of target_usn_status
UsnSummary ==
    /\ usn.pc = "summary"
    /\ usn' = [usn EXCEPT
                 !.failure_on_related_usn =
                     FailureOnRelated(usn.related, usn.related_usn_status),
                 !.result = usn.target_usn_status,
                 !.pc = "returned"]
    /\ UNCHANGED <<FixVars, EnableVars>>

NextUsn ==
    \/ UsnStart
    \/ ExecuteTarget
    \/ ExecuteRelated
    \/ UsnSummary

SpecUsn == InitUsn /\ [][NextUsn]_vars

\* the positions of the related plans executed so far, in execution order
RelatedRun ==
    LET rel == SelectSeq(usn.log, LAMBDA e : e.plan # 0)
    IN [k \in 1..Len(rel) |-> rel[k].plan]

\* C28: the related USN plans are executed only after the target plan
\* returned NonVulnerable or NotAffected and only when no_related is false;
\* they are executed in list order, the next one whatever status the one
\* before returned, all of them before fix_usn returns; and the status
\* fix_usn returns is the one of the target plan.
C28_RelatedAfterTarget ==
    /\ RelatedRun # <<>>
       => /\ usn.log[1].plan = 0
          /\ usn.log[1].status
                \in {SYSTEM_NON_VULNERABLE, SYSTEM_NOT_AFFECTED}
          /\ ~usn.no_related
    /\ \A k \in 1..Len(RelatedRun) : RelatedRun[k] = k
    /\ Len(usn.log) <= 1 + Len(usn.related)
    /\ (usn.pc = "returned" /\ RelatedRun # <<>>)
       => Len(RelatedRun) = Len(usn.related)
    /\ (usn.pc = "returned"
          /\ usn.log[1].status
                \in {SYSTEM_NON_VULNERABLE, SYSTEM_NOT_AFFECTED}
          /\ ~usn.no_related)
       => Len(RelatedRun) = Len(usn.related)
    /\ usn.pc = "returned"
       => /\ usn.log # <<>>
          /\ usn.result = usn.log[1].status

\* the first related plan returned StillVulnerable, the second was executed
\* all the same, and fix_usn returned the status of the target plan
C28_Witness ==
    /\ usn.pc = "returned"
    /\ Len(usn.log) = 3
    /\ usn.log[1].status = SYSTEM_NOT_AFFECTED
    /\ usn.log[2].status = SYSTEM_STILL_VULNERABLE
    /\ usn.log[3].status = SYSTEM_VULNERABLE_UNTIL_REBOOT
    /\ usn.failure_on_related_usn
    /\ usn.result = SYSTEM_NOT_AFFECTED

\* C29: renew flow: the host is detached only when renew was chosen, and
\* before the attach with the new token: after a renew whose attach
\* succeeded the host is attached, after one whose attach failed it is
\* unattached (the expired subscription is not restored), the step's source
\* packages are unfixed, the status is StillVulnerable and the loop ends;
\* after a cancelled prompt the host is attached and expired as before.
C29_RenewFlow ==
    [][/\ Processed = "renew_ok" => attached'
       /\ Processed = "renew_fail"
          => /\ ~attached'
             /\ Appended = step.source_packages
             /\ fix_status' = SYSTEM_STILL_VULNERABLE
             /\ pc' = "post"
       /\ Processed = "renew_cancel"
          => attached' /\ expired' /\ pc' = "post"
       /\ Processed \in {"renew_ok", "renew_cancel", "renew_fail"}
          => attached /\ expired /\ ~dry_run
       /\ (attached /\ ~attached')
          => Processed = "renew_fail"]_vars

\* a renew whose attach failed: the run returned StillVulnerable and the
\* host is unattached
C29_Witness ==
    /\ returned
    /\ events # <<>>
    /\ events[Len(events)].what = "renew_fail"
    /\ ~attached
    /\ fix_status = SYSTEM_STILL_VULNERABLE
    /\ unfixed_pkgs # <<>>

\* C30: snapshot attribution under concurrency: from the before snapshot of
\* a call to its after snapshot the enabled services are changed by that
\* call's own mutation only: while a call is between the two snapshots, no
\* step of another call changes the enabled services, so that what the call
\* reports as enabled or disabled is what its own mutation changed.
C30_SnapshotAttribution ==
    [][\A p \in Procs :
          (proc[p].pc \in {"acquire", "locked", "exit", "after"}
             /\ proc'[p] = proc[p])
          => services' = services]_vars

=============================================================================
